---- MODULE Spec2Model ----
(***************************************************************************)
(* Model of the slot selectors of apps-script/scheduling-tracks.js:        *)
(* getMinimumTimeSlots (greedy cover) and getIterativeTimeSlots            *)
(* (threshold-gated popularity selection), run on the availability index   *)
(* that findAvailableSlotsForEmails hands to them.                         *)
(*                                                                         *)
(* A JavaScript object with string keys is modelled as the sequence of its *)
(* entries in insertion order; an entry is [key |-> label, emails |-> list]*)
(* where the list is the array of emails pushed for that slot (an email    *)
(* can be pushed more than once: a repeated token in a cell, or two rows   *)
(* of one student).  Emails are opaque keys, compared only for equality:   *)
(* they are the numbers 1..NumStudents.  Slot labels are the numbers       *)
(* 1..MaxSlots in order of insertion.                                      *)
(***************************************************************************)
EXTENDS Integers, Sequences, FiniteSets

\* ------------------------------------------------------------------ bounds
NumStudents == 4
MaxSlots == 3
MaxIterSlots == 2
MaxListLen == 2
MaxGroupSize == 3
MaxSheetWeight == 4
MaxPipeWeight == 3
MaxConcSlots == 1
MaxLiveSlots == 2
MaxThresh == 2

Students == 1..NumStudents

\* ----------------------------------------------------------------- helpers
Range(s) == {s[i] : i \in 1..Len(s)}

\* Array.prototype.flat() of Object.values(obj), as a set (new Set(...))
StudentsOf(obj) == UNION {Range(obj[i].emails) : i \in 1..Len(obj)}

\* delete obj[k]: the other entries keep their insertion order
DeleteKey(obj, k) == SelectSeq(obj, LAMBDA e : e.key # k)

\* arr.filter(email => set.has(email))
FilterIn(emails, set) == SelectSeq(emails, LAMBDA e : e \in set)

\* arr.filter(email => !set.has(email))
FilterNotIn(emails, set) == SelectSeq(emails, LAMBDA e : e \notin set)

\* Array.prototype.sort((a, b) => b.count - a.count): the sort is stable, so
\* entries of equal count keep their relative order.
RemoveAt(s, i) == SubSeq(s, 1, i - 1) \o SubSeq(s, i + 1, Len(s))

\* mutant: ties go to the entry that comes last
LastMaxIndex(s) ==
  CHOOSE i \in 1..Len(s) :
    /\ \A j \in 1..Len(s) : s[j].count <= s[i].count
    /\ \A j \in (i + 1)..Len(s) : s[j].count < s[i].count

FirstMaxIndex(s) ==
  CHOOSE i \in 1..Len(s) :
    /\ \A j \in 1..Len(s) : s[j].count <= s[i].count
    /\ \A j \in 1..(i - 1) : s[j].count < s[i].count

RECURSIVE SortByCountDesc(_)
SortByCountDesc(s) ==
  IF s = <<>> THEN <<>>
  ELSE LET i == FirstMaxIndex(s)
       IN  <<s[i]>> \o SortByCountDesc(RemoveAt(s, i))

\* --------------------------------------------------- the inputs of a call
\* Lists a slot can hold: non-empty (a slot is created by its first push),
\* an email possibly repeated.  The selectors only filter and count a list,
\* so the order of its entries decides nothing but the order of the emails
\* in the output; lists are taken in ascending order.
IsSorted(l) == \A i \in 1..(Len(l) - 1) : l[i] <= l[i + 1]

SlotLists ==
  UNION {{l \in [1..n -> Students] : IsSorted(l)} : n \in 1..MaxListLen}

\* Students are numbered in the order in which they first appear in the
\* index (the code only compares emails for equality).
AppendsInOrder(obj, l) ==
  LET m == Cardinality(StudentsOf(obj))
      new == {x \in Range(l) : x > m}
  IN  new = (m + 1)..(m + Cardinality(new))

VARIABLES
  pc,                \* position of the running call
  allSlots,          \* the caller's index object (the parameter aliases it)
  slots0,            \* the index as it was when the call was made
  rounds,            \* number of loop rounds run so far
  allStudents,       \* getMinimumTimeSlots: allStudents
  studentsCovered,   \* getMinimumTimeSlots: studentsCovered
  selectedSlots,     \* getMinimumTimeSlots: selectedSlots (the result)
  minGroupSize,      \* getIterativeTimeSlots: minGroupSize
  excludedStudents,  \* getIterativeTimeSlots: excludedStudents
  remainingStudents, \* getIterativeTimeSlots: remainingStudents
  finalSelections,   \* getIterativeTimeSlots: finalSelections
  totalStudents,     \* getIterativeTimeSlots: totalStudents
  sheet,             \* the output sheet of getIterativeTimeSlots
  data,              \* the rows of the sheet "final-availabilities"
  emailsArg,         \* findAvailableSlotsForEmails: emails
  thresh,            \* findAvailableSlotsForEmails: thresh
  availableSlots,    \* findAvailableSlotsForEmails: availableSlots
  excStudents,       \* the excluded students the index builder returns
  pipe,              \* the function that was called on the sheet
  outSheet,          \* the output sheet of writeSelectedSlotsToSheet
  pcB,               \* position of a second call, of getMinimumTimeSlots
  otherSlots,        \* the index object of the caller of the second call
  otherSlots0,       \* that index as it was when the second call was made
  clock,             \* new Date().getTime(), in milliseconds
  interestData,      \* the rows of the sheet "interest-responses"
  studentData,       \* the script property "studentData"
  queryLog,          \* the rows of the sheet "Query Log"
  resultSheets,      \* the sheets processFilters has written, by name
  lastQuery          \* the last call of processFilters and what it wrote

callVars == <<pc, allSlots, slots0, rounds>>
minVars == <<allStudents, studentsCovered, selectedSlots>>
iterVars == <<minGroupSize, excludedStudents, remainingStudents,
              finalSelections, totalStudents, sheet>>
concVars == <<pcB, otherSlots, otherSlots0>>
queryVars == <<clock, interestData, studentData, queryLog, resultSheets,
               lastQuery>>
pipeVars == <<data, emailsArg, thresh, availableSlots, excStudents, pipe,
              outSheet, concVars, queryVars>>
vars == <<callVars, minVars, iterVars, pipeVars>>

\* A sheet that holds nothing: no header row, no rows, cells D2, E2, F2 blank
\* (a blank cell is <<>>, a written cell <<value>>).
BlankSheet ==
  [header |-> FALSE, rows |-> <<>>, D2 |-> <<>>, E2 |-> <<>>, F2 |-> <<>>]

\* the output sheet of writeSelectedSlotsToSheet before it is written
BlankOutSheet == [header |-> FALSE, rows |-> <<>>, E2 |-> <<>>]

\* no interest row, nothing cached, no query made
InitQuery ==
  /\ clock = 0
  /\ interestData = <<>>
  /\ studentData = <<>>
  /\ queryLog = <<>>
  /\ resultSheets = <<>>
  /\ lastQuery = <<>>

InitIdle ==
  /\ InitQuery
  /\ pc = "call"
  /\ allSlots = <<>>
  /\ slots0 = <<>>
  /\ rounds = 0
  /\ allStudents = {}
  /\ studentsCovered = {}
  /\ selectedSlots = <<>>
  /\ minGroupSize = 0
  /\ excludedStudents = <<>>
  /\ remainingStudents = {}
  /\ finalSelections = <<>>
  /\ totalStudents = 0
  /\ sheet = BlankSheet
  /\ data = <<>>
  /\ emailsArg = <<>>
  /\ thresh = 0
  /\ availableSlots = <<>>
  /\ excStudents = <<>>
  /\ pipe = "none"
  /\ outSheet = BlankOutSheet
  /\ pcB = "call"
  /\ otherSlots = <<>>
  /\ otherSlots0 = <<>>

\* The caller's index before the call: findAvailableSlotsForEmails creates a
\* slot at its first push and appends the emails pushed for it (lines 173-177).
AddSlot(max) ==
  /\ pc = "call"
  /\ Len(allSlots) < max
  /\ \E l \in SlotLists :
       /\ AppendsInOrder(allSlots, l)
       /\ allSlots' = Append(allSlots, [key |-> Len(allSlots) + 1, emails |-> l])
  /\ UNCHANGED <<pc, slots0, rounds, minVars, iterVars, pipeVars>>

\* ------------------------------------------------- getMinimumTimeSlots
\* mutant: the covered students are not filtered out
NewCoverageUnfiltered(emails, covered) == Len(emails)

NewCoverage(emails, covered) == Len(FilterNotIn(emails, covered))

\* Object.entries(filteredSlots).sort(...) of one round
MinSortedSlots(obj, covered) ==
  SortByCountDesc([i \in 1..Len(obj) |->
     [key |-> obj[i].key, emails |-> obj[i].emails,
      count |-> NewCoverage(obj[i].emails, covered)]])

\* selectedSlots[bestSlotKey] = bestSlotEmails
MinSelectedEntry(best) == [key |-> best.key, emails |-> best.emails]

\* mutant: the students of the selected slot are not added
MinCoverNothing(covered, best) == covered

\* bestSlotEmails.forEach(email => studentsCovered.add(email))
MinCovered(covered, best) == covered \cup Range(best.emails)

\* mutant: every slot is deleted from the index
MinConsumeAll(obj, best) == <<>>

\* mutant: the selected slot is left in the index
MinKeepSlot(obj, best) == obj

\* delete filteredSlots[bestSlotKey]
MinConsume(obj, best) == DeleteKey(obj, best.key)

\* mutant: the loop goes on when every student is covered
MinLoopGuardOrEqual(covered, all) == Cardinality(covered) <= Cardinality(all)

\* mutant: the loop stops one student early
MinLoopGuardOffByOne(covered, all) == Cardinality(covered) + 1 < Cardinality(all)

\* while (studentsCovered.size < allStudents.size)
MinLoopGuard(covered, all) == Cardinality(covered) < Cardinality(all)

InitMin == InitIdle

MinAddSlot == AddSlot(MaxSlots)

\* lines 199-203
MinCall ==
  /\ pc = "call"
  /\ studentsCovered' = {}
  /\ selectedSlots' = <<>>
  /\ allStudents' = StudentsOf(allSlots)
  /\ slots0' = allSlots
  /\ pc' = "loop"
  /\ UNCHANGED <<allSlots, rounds, iterVars, pipeVars>>

\* lines 206-228: one round of the while loop.  sortedSlots[0] of an empty
\* array is undefined and destructuring it throws.
MinRound ==
  /\ pc = "loop"
  /\ MinLoopGuard(studentsCovered, allStudents)
  /\ LET sortedSlots == MinSortedSlots(allSlots, studentsCovered)
     IN  IF sortedSlots = <<>>
         THEN /\ pc' = "threw"
              /\ UNCHANGED <<allSlots, studentsCovered, selectedSlots, rounds>>
         ELSE LET best == sortedSlots[1]
              IN  /\ selectedSlots' = Append(selectedSlots, MinSelectedEntry(best))
                  /\ studentsCovered' = MinCovered(studentsCovered, best)
                  /\ allSlots' = MinConsume(allSlots, best)
                  /\ rounds' = rounds + 1
                  /\ pc' = "loop"
  /\ UNCHANGED <<slots0, allStudents, iterVars, pipeVars>>

\* line 230
MinReturn ==
  /\ pc = "loop"
  /\ ~MinLoopGuard(studentsCovered, allStudents)
  /\ pc' = "done"
  /\ UNCHANGED <<allSlots, slots0, rounds, minVars, iterVars, pipeVars>>

NextMin == MinAddSlot \/ MinCall \/ MinRound \/ MinReturn

SpecMin == InitMin /\ [][NextMin]_vars

\* a call that was made runs on: the statements of the function are executed
\* one after the other until it returns
MinLiveAddSlot == AddSlot(MaxLiveSlots)

NextMinLive == MinLiveAddSlot \/ MinCall \/ MinRound \/ MinReturn

\* a call that is in its loop runs on: it ends a round (lines 206-228) or
\* leaves the loop and returns (line 230)
MinAdvances ==
  /\ pc = "loop"
  /\ \/ /\ MinLoopGuard(studentsCovered, allStudents)
        /\ rounds' = rounds + 1
        /\ pc' = "loop"
     \/ /\ ~MinLoopGuard(studentsCovered, allStudents)
        /\ rounds' = rounds
        /\ pc' = "done"

SpecMinLive ==
  InitMin /\ [][NextMinLive]_vars /\ WF_<<pc, rounds>>(MinAdvances)

\* ----------------------------------------------- getIterativeTimeSlots
\* Lists of students the caller passes as excludedStudents: students that
\* are in no slot of the index (main passes the emails that
\* findAvailableSlotsForEmails found in no slot).
ExcludedLists(obj) ==
  LET m == Cardinality(StudentsOf(obj))
  IN  {[i \in 1..j |-> m + i] : j \in 0..(NumStudents - m)}

MinGroupSizes == (-1)..MaxGroupSize

\* lines 270-276: the ranking of one round
\* mutant: the lists are ranked as they are in the index
IterRankedUnfiltered(obj, remaining) ==
  [i \in 1..Len(obj) |->
     [key |-> obj[i].key, emails |-> obj[i].emails,
      count |-> Len(obj[i].emails)]]

IterRanked(obj, remaining) ==
  [i \in 1..Len(obj) |->
     LET filteredEmails == FilterIn(obj[i].emails, remaining)
     IN  [key |-> obj[i].key, emails |-> filteredEmails,
          count |-> Len(filteredEmails)]]

\* mutant: the slots whose filtered list is empty are kept
IterKeepEmpty(ranked) == ranked

\* .filter(([_, __, count]) => count > 0)
IterNonEmpty(ranked) == SelectSeq(ranked, LAMBDA e : e.count > 0)

\* mutant: the slots are not sorted
IterUnsortedSlots(obj, remaining) == IterNonEmpty(IterRanked(obj, remaining))

IterSortedSlots(obj, remaining) ==
  SortByCountDesc(IterNonEmpty(IterRanked(obj, remaining)))

\* mutant: a slot of exactly minGroupSize students is rejected
IterBelowThresholdOffByOne(count, min) == count <= min

\* if (count < minGroupSize) break
IterBelowThreshold(count, min) == count < min

\* mutant: the loop ends when exactly minGroupSize students remain
IterLoopGuardStrict(remaining, min) == Cardinality(remaining) > min

\* while (remainingStudents.size >= minGroupSize)
IterLoopGuard(remaining, min) == Cardinality(remaining) >= min

\* the round selects: the guard holds and neither break is taken
IterSelects(obj, remaining, min) ==
  /\ IterLoopGuard(remaining, min)
  /\ IterSortedSlots(obj, remaining) # <<>>
  /\ ~IterBelowThreshold(IterSortedSlots(obj, remaining)[1].count, min)

\* finalSelections.push([chosenSlot, chosenStudents.join(', '), count]); the
\* joined string is kept as the list of the emails joined
IterRow(chosen) ==
  [slot |-> chosen.key, students |-> chosen.emails, count |-> chosen.count]

\* mutant: the chosen students stay in the remaining pool
IterKeepChosen(remaining, chosen) == remaining

\* chosenStudents.forEach(student => remainingStudents.delete(student))
IterRemove(remaining, chosen) == remaining \ Range(chosen.emails)

InitIter == InitIdle

IterAddSlot == AddSlot(MaxIterSlots)

\* lines 243-266, called with minGroupSize = min and excludedStudents = exc
IterCallWith(min, exc) ==
  /\ pc = "call"
  /\ minGroupSize' = min
  /\ excludedStudents' = exc
  /\ sheet' = [BlankSheet EXCEPT !.header = TRUE]
  /\ remainingStudents' = StudentsOf(allSlots)
  /\ finalSelections' = <<>>
  /\ totalStudents' = 0
  /\ slots0' = allSlots
  /\ pc' = "loop"
  /\ UNCHANGED <<allSlots, rounds, minVars, pipeVars>>

IterCall ==
  \E min \in MinGroupSizes :
    \E exc \in ExcludedLists(allSlots) : IterCallWith(min, exc)

\* mutant: the chosen slot is deleted from the index
IterIndexConsumed(obj, chosen) == DeleteKey(obj, chosen.key)

\* the index after a round: the round reads selectedSlots with
\* Object.entries and filter, which make new arrays (lines 270-273), and
\* assigns to none of its properties
IterIndexAfter(obj, chosen) == obj

\* lines 268-289: a round that selects a slot
IterRound ==
  /\ pc = "loop"
  /\ IterSelects(allSlots, remainingStudents, minGroupSize)
  /\ LET chosen == IterSortedSlots(allSlots, remainingStudents)[1]
     IN  /\ finalSelections' = Append(finalSelections, IterRow(chosen))
         /\ remainingStudents' = IterRemove(remainingStudents, chosen)
         /\ totalStudents' = totalStudents + chosen.count
         /\ allSlots' = IterIndexAfter(allSlots, chosen)
  /\ rounds' = rounds + 1
  /\ UNCHANGED <<pc, slots0, minVars, minGroupSize,
                 excludedStudents, sheet, pipeVars>>

\* lines 268, 278, 282 and 291-302: the loop ends (its guard fails or a
\* break is taken) and the results are written to the sheet
IterWrite ==
  /\ pc = "loop"
  /\ ~IterSelects(allSlots, remainingStudents, minGroupSize)
  /\ sheet' = [sheet EXCEPT
       !.rows = finalSelections,
       !.D2 = IF Len(excludedStudents) > 0 THEN <<excludedStudents>> ELSE @,
       !.E2 = <<Len(excludedStudents)>>,
       !.F2 = <<Len(excludedStudents) + totalStudents>>]
  /\ pc' = "done"
  /\ UNCHANGED <<allSlots, slots0, rounds, minVars, minGroupSize,
                 excludedStudents, remainingStudents, finalSelections,
                 totalStudents, pipeVars>>

NextIter == IterAddSlot \/ IterCall \/ IterRound \/ IterWrite

SpecIter == InitIter /\ [][NextIter]_vars

\* a call that is in its loop runs on: it ends a round (lines 268-289) or
\* leaves the loop and writes the sheet (lines 291-302)
IterAdvances ==
  /\ pc = "loop"
  /\ \/ rounds' = rounds + 1 /\ pc' = "loop"
     \/ rounds' = rounds /\ pc' = "done"

SpecIterLive ==
  InitIter /\ [][NextIter]_vars /\ WF_<<pc, rounds>>(IterAdvances)

\* ------------------------------------------------- the index builders
(* The sheet "final-availabilities" is the sequence data of its rows below  *)
(* the header; a row is [email |-> e, cells |-> c] where e is the value of  *)
(* the email cell (0 stands for the empty string, the one falsy value) and  *)
(* c[d] is the string of the availability cell of day d, a sequence of      *)
(* characters.                                                              *)
Days == <<"Mon", "Tue", "Wed", "Thu", "Fri", "Sat", "Sun">>

\* the days whose cells are filled in; the cells of the other days are empty
FilledDays == {1}

\* the characters of the cells: two letters, the comma and the space
Chars == {"a", "b", ",", " "}

\* the letters are named in the order of their first use (the code only
\* compares slot tokens for equality)
CharsAfter(sheetData) ==
  IF \E i \in 1..Len(sheetData) : \E d \in FilledDays :
       "a" \in Range(sheetData[i].cells[d])
    THEN Chars
    ELSE Chars \ {"b"}

\* String.prototype.split(','): the index of the first comma of s, or 0
FirstComma(s) ==
  IF \E i \in 1..Len(s) : s[i] = ","
    THEN CHOOSE i \in 1..Len(s) : s[i] = "," /\ \A j \in 1..(i - 1) : s[j] # ","
    ELSE 0

RECURSIVE SplitComma(_)
SplitComma(s) ==
  IF FirstComma(s) = 0
    THEN <<s>>
    ELSE <<SubSeq(s, 1, FirstComma(s) - 1)>>
           \o SplitComma(SubSeq(s, FirstComma(s) + 1, Len(s)))

\* String.prototype.trim()
RECURSIVE Trim(_)
Trim(s) ==
  IF s = <<>> THEN s
  ELSE IF Head(s) = " " THEN Trim(Tail(s))
  ELSE IF s[Len(s)] = " " THEN Trim(SubSeq(s, 1, Len(s) - 1))
  ELSE s

\* timeSlotsString.split(',').map(slot => slot.trim())
TimeSlots(timeSlotsString) ==
  [i \in 1..Len(SplitComma(timeSlotsString)) |->
     Trim(SplitComma(timeSlotsString)[i])]

\* the template string `${days[index - 5]} ${slot}`
SlotKey(d, slot) == <<Days[d], " ">> \o slot

\* if (!availableSlots[key]) availableSlots[key] = [];
\* availableSlots[key].push(email)
PushEmail(obj, key, email) ==
  IF \E i \in 1..Len(obj) : obj[i].key = key
    THEN LET i == CHOOSE j \in 1..Len(obj) : obj[j].key = key
         IN  [obj EXCEPT ![i].emails = Append(@, email)]
    ELSE Append(obj, [key |-> key, emails |-> <<email>>])

\* timeSlots.forEach(slot => ...) from the n-th slot on
RECURSIVE PushSlots(_, _, _, _, _)
PushSlots(obj, d, timeSlots, n, email) ==
  IF n > Len(timeSlots) THEN obj
  ELSE PushSlots(PushEmail(obj, SlotKey(d, timeSlots[n]), email),
                 d, timeSlots, n + 1, email)

\* the body of availabilityIndices.forEach for one cell
PushCell(obj, d, timeSlotsString, email) ==
  IF timeSlotsString # <<>>
    THEN PushSlots(obj, d, TimeSlots(timeSlotsString), 1, email)
    ELSE obj

\* availabilityIndices.forEach((index) => ...) from day d on, for one row
RECURSIVE PushRow(_, _, _)
PushRow(obj, row, d) ==
  IF d > Len(Days) THEN obj
  ELSE PushRow(PushCell(obj, d, row.cells[d], row.email), row, d + 1)

\* the loop over the rows from row i on; rows is the set of the rows whose
\* test (emails.includes(email), found) lets them in
RECURSIVE PushRows(_, _, _, _)
PushRows(obj, sheetData, rows, i) ==
  IF i > Len(sheetData) THEN obj
  ELSE PushRows(IF i \in rows THEN PushRow(obj, sheetData[i], 1) ELSE obj,
                sheetData, rows, i + 1)

\* Object.entries(availableSlots).filter(([_, list]) => list.length >= thresh)
FilteredSlots(obj, t) == SelectSeq(obj, LAMBDA e : Len(e.emails) >= t)

\* mutant: the negation of the test is dropped
ExcludedNegationDropped(list, filteredSlots) ==
  FilterIn(list, StudentsOf(filteredSlots))

\* emails.filter(email => !includedStudents.has(email))
ExcludedOf(list, filteredSlots) ==
  FilterNotIn(list, StudentsOf(filteredSlots))

\* the emails of the rows of a set, in the order of the rows
RECURSIVE EmailsOfRows(_, _, _)
EmailsOfRows(sheetData, rows, i) ==
  IF i > Len(sheetData) THEN <<>>
  ELSE (IF i \in rows THEN <<sheetData[i].email>> ELSE <<>>)
         \o EmailsOfRows(sheetData, rows, i + 1)

\* the rows findAvailableSlotsForEmails lets in: emails.includes(email)
RowsOfEmails(sheetData, list) ==
  {i \in 1..Len(sheetData) : sheetData[i].email \in Range(list)}

\* the size of a sheet: its rows and the characters of its cells
RECURSIVE SheetWeight(_)
SheetWeight(sheetData) ==
  IF sheetData = <<>> THEN 0
  ELSE LET row == sheetData[Len(sheetData)]
           RECURSIVE CellsLen(_)
           CellsLen(d) == IF d = 0 THEN 0
                          ELSE Len(row.cells[d]) + CellsLen(d - 1)
       IN  1 + CellsLen(Len(Days))
             + SheetWeight(SubSeq(sheetData, 1, Len(sheetData) - 1))

\* the emails of a sheet are numbered in the order of their first row, 0 is
\* the empty cell (the code only compares emails for equality)
NextEmails(sheetData) ==
  0..(1 + Cardinality({sheetData[i].email : i \in 1..Len(sheetData)} \ {0}))

\* getEmailsFromSheet, lines 8-17: the non-empty emails of a column of some
\* other sheet; they are emails of the rows of data and perhaps one more
SheetEmailLists ==
  LET known == {data[i].email : i \in 1..Len(data)} \ {0}
      all   == known \cup {Cardinality(known) + 1}
  IN  {l \in UNION {[1..n -> all] : n \in 0..Cardinality(all)} :
         \A i \in 1..(Len(l) - 1) : l[i] < l[i + 1]}

\* getEmailsWithCondition, lines 28-40: student 1 is virtual, or nobody is
VirtualLists == {<<>>, <<1>>}

Threshes == 0..MaxThresh

\* ------------------------------------------- writeSelectedSlotsToSheet
\* lines 332-338: one row per entry of selectedSlots
WriteRow(entry, virtualStudents) ==
  [slot |-> entry.key, students |-> entry.emails, count |-> Len(entry.emails),
   virtual |-> FilterIn(virtualStudents, Range(entry.emails))]

\* mutant: the rows are left in the order of selectedSlots
UnsortedRows(selected, virtualStudents) ==
  [i \in 1..Len(selected) |-> WriteRow(selected[i], virtualStudents)]

\* lines 332-340: the rows, sorted by count, largest first
WriteSortedSlots(selected, virtualStudents) ==
  SortByCountDesc(
    [i \in 1..Len(selected) |-> WriteRow(selected[i], virtualStudents)])

\* lines 314-350, called with the selection getMinimumTimeSlots returned
WriteSelected(virtualStudents, excluded) ==
  /\ pc = "done"
  /\ outSheet' =
       [header |-> TRUE,
        rows |-> WriteSortedSlots(selectedSlots, virtualStudents),
        E2 |-> IF Len(excluded) > 0 THEN <<excluded>> ELSE <<>>]
  /\ pc' = "written"
  /\ UNCHANGED <<allSlots, slots0, rounds, minVars, iterVars, data, emailsArg,
                 thresh, availableSlots, excStudents, pipe, concVars>>
  /\ UNCHANGED queryVars

\* getMinimumTimeSlots followed by writeSelectedSlotsToSheet({selectedSlots,
\* sheetName}); virtualStudents and excludedStudents have their default []
MinWrite == WriteSelected(<<>>, <<>>)

NextWrite == MinAddSlot \/ MinCall \/ MinRound \/ MinReturn \/ MinWrite

SpecWrite == InitMin /\ [][NextWrite]_vars

\* ----------------------------------------------------- the pipelines
InitPipe ==
  /\ InitQuery
  /\ pc = "sheet"
  /\ allSlots = <<>>
  /\ slots0 = <<>>
  /\ rounds = 0
  /\ allStudents = {}
  /\ studentsCovered = {}
  /\ selectedSlots = <<>>
  /\ minGroupSize = 0
  /\ excludedStudents = <<>>
  /\ remainingStudents = {}
  /\ finalSelections = <<>>
  /\ totalStudents = 0
  /\ sheet = BlankSheet
  /\ data = <<>>
  /\ emailsArg = <<>>
  /\ thresh = 0
  /\ availableSlots = <<>>
  /\ excStudents = <<>>
  /\ pipe = "none"
  /\ outSheet = BlankOutSheet
  /\ pcB = "call"
  /\ otherSlots = <<>>
  /\ otherSlots0 = <<>>

\* a row is added to the sheet "final-availabilities", its cells empty
AddRow(max) ==
  /\ pc = "sheet"
  /\ SheetWeight(data) < max
  /\ \E e \in NextEmails(data) :
       data' = Append(data, [email |-> e, cells |-> [d \in 1..Len(Days) |-> <<>>]])
  /\ UNCHANGED <<callVars, minVars, iterVars, emailsArg, thresh,
                 availableSlots, excStudents, pipe, outSheet, concVars>>
  /\ UNCHANGED queryVars

\* a character is typed at the end of a cell of the last row
AddChar(max) ==
  /\ pc = "sheet"
  /\ data # <<>>
  /\ SheetWeight(data) < max
  /\ \E d \in FilledDays : \E c \in CharsAfter(data) :
       data' = [data EXCEPT ![Len(data)].cells[d] = Append(@, c)]
  /\ UNCHANGED <<callVars, minVars, iterVars, emailsArg, thresh,
                 availableSlots, excStudents, pipe, outSheet, concVars>>
  /\ UNCHANGED queryVars

\* findAvailableSlotsForEmails(list, t), lines 154-190, called by p; the
\* index it returns is the allSlots of the caller
FindAvailableSlotsForEmails(list, t, p) ==
  /\ pc = "sheet"
  /\ emailsArg' = list
  /\ thresh' = t
  /\ availableSlots' = PushRows(<<>>, data, RowsOfEmails(data, list), 1)
  /\ allSlots' = FilteredSlots(availableSlots', t)
  /\ excStudents' = ExcludedOf(list, allSlots')
  /\ pipe' = p
  /\ pc' = "call"
  /\ UNCHANGED <<slots0, rounds, minVars, iterVars, data, outSheet, concVars>>
  /\ UNCHANGED queryVars

\* processAvailabilityBySheet, lines 384-388: the emails come from a column
\* of another sheet
ProcessAvailabilityBySheet ==
  \E list \in SheetEmailLists : \E t \in Threshes :
    FindAvailableSlotsForEmails(list, t, "bySheet")

\* processAvailabilityByTrack, lines 361-365: the emails are those of the
\* rows whose tracks cell lists the track (getEmailsByTrack, lines 49-66,
\* keeps the email of such a row whatever it is); inTrack is the set of
\* these rows
ProcessAvailabilityByTrack ==
  \E inTrack \in SUBSET (1..Len(data)) : \E t \in Threshes :
    FindAvailableSlotsForEmails(EmailsOfRows(data, inTrack, 1), t, "byTrack")

\* main, lines 412-414: findAvailableSlotsForEmails(emails, 0)
Main ==
  \E list \in SheetEmailLists : FindAvailableSlotsForEmails(list, 0, "main")

\* findAvailableSlots(track, thresh), lines 77-143; found is the set of the
\* rows whose tracks cell has a track that includes the track asked for, and
\* emailsArg holds studentsInTrack
FindAvailableSlots ==
  /\ pc = "sheet"
  /\ \E found \in SUBSET (1..Len(data)) : \E t \in Threshes :
       /\ emailsArg' = EmailsOfRows(data, found, 1)
       /\ thresh' = t
       /\ availableSlots' = PushRows(<<>>, data, found, 1)
       /\ allSlots' = FilteredSlots(availableSlots', t)
       /\ excStudents' = ExcludedOf(emailsArg', allSlots')
  /\ pipe' = "find"
  /\ pc' = "built"
  /\ UNCHANGED <<slots0, rounds, minVars, iterVars, data, outSheet, concVars>>
  /\ UNCHANGED queryVars

\* the sheet is filled in, then one of the index builders is called
BuildAddRow == AddRow(MaxSheetWeight)

BuildAddChar == AddChar(MaxSheetWeight)

NextBuild ==
  \/ BuildAddRow
  \/ BuildAddChar
  \/ ProcessAvailabilityBySheet
  \/ ProcessAvailabilityByTrack
  \/ FindAvailableSlots

SpecBuild == InitPipe /\ [][NextBuild]_vars

MinPipes == {"bySheet", "byTrack"}

\* lines 366 and 389: const filtered = getMinimumTimeSlots(allSlots)
PipeMinCall == pipe \in MinPipes /\ MinCall

PipeMinRound == pipe \in MinPipes /\ MinRound

PipeMinReturn == pipe \in MinPipes /\ MinReturn

\* lines 367-372 and 390-395: writeSelectedSlotsToSheet({... excludedStudents:
\* excStudents})
PipeWrite ==
  /\ pipe \in MinPipes
  /\ \E v \in VirtualLists : WriteSelected(v, excStudents)

\* line 414: getIterativeTimeSlots(allSlots, 0, ..., excludedStudents =
\* excStudents); main passes minGroupSize 0, another caller any number
PipeIterCall ==
  /\ pipe = "main"
  /\ \E min \in MinGroupSizes : IterCallWith(min, excStudents)

PipeIterRound == pipe = "main" /\ IterRound

PipeIterWrite == pipe = "main" /\ IterWrite

PipeAddRow == AddRow(MaxPipeWeight)

PipeAddChar == AddChar(MaxPipeWeight)

NextPipe ==
  \/ PipeAddRow
  \/ PipeAddChar
  \/ ProcessAvailabilityBySheet
  \/ ProcessAvailabilityByTrack
  \/ Main
  \/ PipeMinCall
  \/ PipeMinRound
  \/ PipeMinReturn
  \/ PipeWrite
  \/ PipeIterCall
  \/ PipeIterRound
  \/ PipeIterWrite

SpecPipe == InitPipe /\ [][NextPipe]_vars

\* ------------------------------------------- two calls at the same time
(* A call of getIterativeTimeSlots on the index allSlots and a call of      *)
(* getMinimumTimeSlots on the index otherSlots, their rounds taken in any   *)
(* order.  Both functions keep their state in local variables (lines        *)
(* 199-203 and 259-266), so the first call owns iterVars and the second     *)
(* minVars; the one object a call shares with its caller is the index.      *)

\* mutant: the second call is given the index of the first call
ConcSharedIndex(own, other) == other

\* the parameter filteredSlots of the second call (line 198) is the index of
\* its own caller
ConcIndex(own, other) == own

\* the lists of the slots of the two indexes: no email is repeated
ConcLists == {l \in SlotLists : Cardinality(Range(l)) = Len(l)}

\* the two callers build their indexes before either call is made, the
\* first caller first
ConcAddSlot ==
  /\ pc = "call"
  /\ pcB = "call"
  /\ otherSlots = <<>>
  /\ Len(allSlots) < MaxConcSlots
  /\ \E l \in ConcLists :
       /\ AppendsInOrder(allSlots, l)
       /\ allSlots' = Append(allSlots, [key |-> Len(allSlots) + 1, emails |-> l])
  /\ UNCHANGED <<pc, slots0, rounds, minVars, iterVars, pipeVars>>

ConcAddOtherSlot ==
  /\ pc = "call"
  /\ pcB = "call"
  /\ Len(otherSlots) < MaxConcSlots
  /\ \E l \in ConcLists :
       /\ AppendsInOrder(otherSlots, l)
       /\ otherSlots' =
            Append(otherSlots, [key |-> Len(otherSlots) + 1, emails |-> l])
  /\ UNCHANGED <<callVars, minVars, iterVars, data, emailsArg, thresh,
                 availableSlots, excStudents, pipe, outSheet, pcB,
                 otherSlots0>>
  /\ UNCHANGED queryVars

\* getIterativeTimeSlots(allSlots, min, sheetName): lines 243-266
ConcIterCall == \E min \in MinGroupSizes : IterCallWith(min, <<>>)

\* getMinimumTimeSlots(otherSlots): lines 199-203
ConcMinCall ==
  /\ pcB = "call"
  /\ studentsCovered' = {}
  /\ selectedSlots' = <<>>
  /\ allStudents' = StudentsOf(ConcIndex(otherSlots, allSlots))
  /\ otherSlots0' = otherSlots
  /\ pcB' = "loop"
  /\ UNCHANGED <<callVars, iterVars, data, emailsArg, thresh, availableSlots,
                 excStudents, pipe, outSheet, otherSlots>>
  /\ UNCHANGED queryVars

\* lines 206-228: one round of the second call
ConcMinRound ==
  /\ pcB = "loop"
  /\ MinLoopGuard(studentsCovered, allStudents)
  /\ LET filteredSlots == ConcIndex(otherSlots, allSlots)
         sortedSlots == MinSortedSlots(filteredSlots, studentsCovered)
     IN  IF sortedSlots = <<>>
         THEN /\ pcB' = "threw"
              /\ UNCHANGED <<otherSlots, studentsCovered, selectedSlots>>
         ELSE LET best == sortedSlots[1]
              IN  /\ selectedSlots' = Append(selectedSlots, MinSelectedEntry(best))
                  /\ studentsCovered' = MinCovered(studentsCovered, best)
                  /\ otherSlots' = MinConsume(otherSlots, best)
                  /\ pcB' = "loop"
  /\ UNCHANGED <<callVars, allStudents, iterVars, data, emailsArg, thresh,
                 availableSlots, excStudents, pipe, outSheet, otherSlots0>>
  /\ UNCHANGED queryVars

\* line 230
ConcMinReturn ==
  /\ pcB = "loop"
  /\ ~MinLoopGuard(studentsCovered, allStudents)
  /\ pcB' = "done"
  /\ UNCHANGED <<callVars, minVars, iterVars, data, emailsArg, thresh,
                 availableSlots, excStudents, pipe, outSheet, otherSlots,
                 otherSlots0>>
  /\ UNCHANGED queryVars

NextConc ==
  \/ ConcAddSlot
  \/ ConcAddOtherSlot
  \/ ConcIterCall
  \/ IterRound
  \/ IterWrite
  \/ ConcMinCall
  \/ ConcMinRound
  \/ ConcMinReturn

SpecConc == InitIdle /\ [][NextConc]_vars

\* ------------------------------------------- the time and interest queries
(* interest-availability-query.js. The sheet "final-availabilities" is the  *)
(* variable data; a row of "interest-responses" is [email |-> e, cell |-> c] *)
(* where e is the email after trim().toLowerCase() (0 is the empty string)   *)
(* and c the string of the cell "Interests". First and last names are left   *)
(* out of the rows. The clock counts the milliseconds from an instant whose  *)
(* getTime() is a multiple of IdModulus.                                     *)

MaxQueryWeight == 2
MaxInterestWeight == 2
MaxQueries == 2
MaxLag == 1

\* line 128: slice(-5) keeps the last five decimal digits of the timestamp
IdModulus == 100000

\* the last instant of a call
MaxClock == IdModulus + MaxLag

\* line 59
QueryDays ==
  <<"Monday", "Tuesday", "Wednesday", "Thursday", "Friday", "Saturday",
    "Sunday">>

\* the characters of the cell "Interests": a letter in both cases and the
\* separator
InterestChars == {"d", "D", ";"}

\* what the sidebar passes: data.day, data.time, data.interests
QueryDayChoices == {1, 2}
QueryTimes == {<<"a">>, <<"b">>}
QueryInterests == {<<>>, << <<"d">> >>, << <<"D">> >>}

\* the variables the query functions leave alone, pc and data apart
schedVars == <<allSlots, slots0, rounds, minVars, iterVars, emailsArg, thresh,
               availableSlots, excStudents, pipe, outSheet, concVars>>

\* String.prototype.toLowerCase()
ToLowerCase(s) == [i \in 1..Len(s) |-> IF s[i] = "D" THEN "d" ELSE s[i]]

\* String.prototype.split(';'): the index of the first semicolon of s, or 0
FirstSemicolon(s) ==
  IF \E i \in 1..Len(s) : s[i] = ";"
    THEN CHOOSE i \in 1..Len(s) : s[i] = ";" /\ \A j \in 1..(i - 1) : s[j] # ";"
    ELSE 0

RECURSIVE SplitSemicolon(_)
SplitSemicolon(s) ==
  IF FirstSemicolon(s) = 0
    THEN <<s>>
    ELSE <<SubSeq(s, 1, FirstSemicolon(s) - 1)>>
           \o SplitSemicolon(SubSeq(s, FirstSemicolon(s) + 1, Len(s)))

\* line 40: interestData[i][interestsIndex]?.split(";").map(i => i.trim())
Interests(cell) ==
  [i \in 1..Len(SplitSemicolon(cell)) |-> Trim(SplitSemicolon(cell)[i])]

\* lines 69-76: availability[day] is the list of the non-empty tokens of the
\* cell of the day; <<>> stands for a day that is not a key of availability
Availability(row) ==
  [d \in 1..Len(QueryDays) |->
     SelectSeq(TimeSlots(row.cells[d]), LAMBDA slot : slot # <<>>)]

\* obj[k] = v: a key keeps the place of its first insertion
PutKey(obj, k, v) ==
  IF \E i \in 1..Len(obj) : obj[i].key = k
    THEN LET i == CHOOSE j \in 1..Len(obj) : obj[j].key = k
         IN  [obj EXCEPT ![i].val = v]
    ELSE Append(obj, [key |-> k, val |-> v])

HasKey(obj, k) == \E i \in 1..Len(obj) : obj[i].key = k

ValueOf(obj, k) == obj[CHOOSE i \in 1..Len(obj) : obj[i].key = k].val

\* lines 34-42: the loop over the rows of "interest-responses" from row i on
RECURSIVE InterestLookup(_, _, _)
InterestLookup(lookup, rows, i) ==
  IF i > Len(rows) THEN lookup
  ELSE InterestLookup(IF rows[i].email = 0 THEN lookup
                      ELSE PutKey(lookup, rows[i].email, Interests(rows[i].cell)),
                      rows, i + 1)

\* lines 65-83: the loop over the rows of "final-availabilities" from row i on
RECURSIVE AvailabilityLookup(_, _, _)
AvailabilityLookup(lookup, rows, i) ==
  IF i > Len(rows) THEN lookup
  ELSE AvailabilityLookup(IF rows[i].email = 0 THEN lookup
                          ELSE PutKey(lookup, rows[i].email, Availability(rows[i])),
                          rows, i + 1)

\* line 88: the keys of interestLookup, then the new keys of availabilityLookup
AllEmails(interestLookup, availabilityLookup) ==
  [i \in 1..Len(interestLookup) |-> interestLookup[i].key]
    \o SelectSeq([i \in 1..Len(availabilityLookup) |-> availabilityLookup[i].key],
                 LAMBDA e : ~HasKey(interestLookup, e))

\* lines 89-102: the merge
MergeStudentData(interestLookup, availabilityLookup, requireAvailability, requireInterests) ==
  LET allEmails == AllEmails(interestLookup, availabilityLookup)
      kept == SelectSeq(allEmails, LAMBDA e :
                ~ \/ requireInterests /\ ~HasKey(interestLookup, e)
                  \/ requireAvailability /\ ~HasKey(availabilityLookup, e))
  IN  [i \in 1..Len(kept) |->
        [email |-> kept[i],
         interests |-> IF HasKey(interestLookup, kept[i])
                         THEN ValueOf(interestLookup, kept[i]) ELSE <<>>,
         availability |-> IF HasKey(availabilityLookup, kept[i])
                            THEN ValueOf(availabilityLookup, kept[i])
                            ELSE [d \in 1..Len(QueryDays) |-> <<>>]]]

\* student.availability[day] && student.availability[day].includes(time)
AvailableAt(student, day, time) == time \in Range(student.availability[day])

\* interests.some(interest =>
\*   student.interests.includes(interest.toLowerCase()))
SomeInterest(student, interests) ==
  \E i \in 1..Len(interests) :
    ToLowerCase(interests[i]) \in Range(student.interests)

\* lines 156-169
MatchingStudents(students, day, time, interests) ==
  IF interests = <<>>
    THEN SelectSeq(students, LAMBDA s : AvailableAt(s, day, time))
    ELSE SelectSeq(students, LAMBDA s :
           AvailableAt(s, day, time) /\ SomeInterest(s, interests))

\* line 128: "Q" and the last five digits of the timestamp
QueryId(now) == now % IdModulus

\* line 129: the template string `${day}_${time}_${queryId}`
SheetName(day, time, now) == <<QueryDays[day], time, QueryId(now)>>

\* lines 187-190: the rows under the header
ResultRows(matching) ==
  [i \in 1..Len(matching) |->
     [email |-> matching[i].email, interests |-> matching[i].interests]]

\* a row is added to the sheet "final-availabilities"
QueryAddRow ==
  /\ AddRow(MaxQueryWeight)

\* a character is typed in the sheet "final-availabilities"
QueryAddChar ==
  /\ AddChar(MaxQueryWeight)

\* the size of the sheet "interest-responses": its rows and their characters
RECURSIVE InterestWeight(_)
InterestWeight(rows) ==
  IF rows = <<>> THEN 0
  ELSE 1 + Len(rows[Len(rows)].cell)
         + InterestWeight(SubSeq(rows, 1, Len(rows) - 1))

\* a row is added to the sheet "interest-responses", its cell empty
AddInterestRow ==
  /\ pc = "sheet"
  /\ InterestWeight(interestData) < MaxInterestWeight
  /\ \E e \in NextEmails(data) :
       interestData' = Append(interestData, [email |-> e, cell |-> <<>>])
  /\ UNCHANGED <<pc, schedVars, data, clock, studentData, queryLog,
                 resultSheets, lastQuery>>

\* a character is typed at the end of the cell of the last row
AddInterestChar ==
  /\ pc = "sheet"
  /\ interestData # <<>>
  /\ InterestWeight(interestData) < MaxInterestWeight
  /\ \E c \in InterestChars :
       interestData' =
         [interestData EXCEPT ![Len(interestData)].cell = Append(@, c)]
  /\ UNCHANGED <<pc, schedVars, data, clock, studentData, queryLog,
                 resultSheets, lastQuery>>

\* preprocessStudentData(requireAvailability, requireInterests), lines 13-107;
\* JSON.stringify and JSON.parse give back the strings, arrays and objects
\* they are given
PreprocessWith(requireAvailability, requireInterests) ==
  /\ pc = "sheet"
  /\ studentData' =
       MergeStudentData(InterestLookup(<<>>, interestData, 1),
                        AvailabilityLookup(<<>>, data, 1),
                        requireAvailability, requireInterests)
  /\ pc' = "cached"
  /\ UNCHANGED <<schedVars, data, clock, interestData, queryLog,
                 resultSheets, lastQuery>>

\* line 13: the default parameters
PreprocessStudentData == PreprocessWith(FALSE, TRUE)

\* processFilters({day, time, interests}), lines 144-193, with logQuery,
\* lines 117-135, called at the instant clock; the call takes a millisecond
ProcessFilters ==
  /\ pc = "cached"
  /\ clock < MaxClock
  /\ clock % IdModulus < MaxLag
  /\ Len(queryLog) < MaxQueries
  /\ \E day \in QueryDayChoices : \E time \in QueryTimes :
     \E interests \in QueryInterests :
       LET matchingStudents == MatchingStudents(studentData, day, time, interests)
           sheetName == SheetName(day, time, clock)
       IN  IF matchingStudents = <<>>
             THEN /\ lastQuery' = <<[day |-> day, time |-> time,
                                     interests |-> interests, rows |-> <<>>]>>
                  /\ UNCHANGED <<queryLog, resultSheets>>
             ELSE /\ queryLog' =
                       Append(queryLog,
                              [queryId |-> QueryId(clock), at |-> clock,
                               time |-> time, day |-> day,
                               interests |-> interests, sheetName |-> sheetName])
                  /\ resultSheets' =
                       PutKey(resultSheets, sheetName, ResultRows(matchingStudents))
                  /\ lastQuery' = <<[day |-> day, time |-> time,
                                     interests |-> interests,
                                     rows |-> ResultRows(matchingStudents)]>>
  /\ clock' = clock + 1
  /\ UNCHANGED <<pc, schedVars, data, interestData, studentData>>

\* a hundred seconds less a millisecond pass
Tick ==
  /\ pc = "cached"
  /\ clock + IdModulus - 1 <= MaxClock
  /\ clock' = clock + IdModulus - 1
  /\ UNCHANGED <<pc, schedVars, data, interestData, studentData, queryLog,
                 resultSheets, lastQuery>>

NextQuery ==
  \/ QueryAddRow
  \/ QueryAddChar
  \/ AddInterestRow
  \/ AddInterestChar
  \/ PreprocessStudentData
  \/ ProcessFilters
  \/ Tick

SpecQuery == InitPipe /\ [][NextQuery]_vars

\* ====================================================== properties
EmailsAt(obj, i) == Range(obj[i].emails)

Keys(obj) == {obj[i].key : i \in 1..Len(obj)}

RowStudents(i) == Range(finalSelections[i].students)

\* the students of the 'Excluded Students' cell D2
ReportedExcluded == IF sheet.D2 = <<>> THEN {} ELSE Range(sheet.D2[1])

NoRepeats(obj) ==
  \A i \in 1..Len(obj) :
    Cardinality(Range(obj[i].emails)) = Len(obj[i].emails)

\* C1: when getMinimumTimeSlots returns, the union of the lists of the
\* selected slots is the set of all students of the index it was given.
CoverageTotality ==
  pc = "done" => StudentsOf(selectedSlots) = StudentsOf(slots0)

CoverageTotalityWitness ==
  /\ pc = "done"
  /\ Len(selectedSlots) >= 2
  /\ Len(allSlots) >= 1

\* C2 as stated, on indexes whose lists repeat no student: when
\* getMinimumTimeSlots returns, no student is in the lists of two selected
\* slots.
SelectionDisjoint ==
  (pc = "done" /\ NoRepeats(slots0)) =>
    \A i, j \in 1..Len(selectedSlots) :
      i # j => EmailsAt(selectedSlots, i) \cap EmailsAt(selectedSlots, j) = {}

\* C2 amended: every selected slot keeps its full list, so a student can be
\* in several selected slots; each student of the index is in at least one
\* selected slot, and each selected slot holds at least one student that no
\* slot selected before it holds.
SelectionCoversAtLeastOnce ==
  /\ pc = "done" =>
       \A s \in StudentsOf(slots0) :
         \E i \in 1..Len(selectedSlots) : s \in EmailsAt(selectedSlots, i)
  /\ \A i \in 1..Len(selectedSlots) :
       \E s \in EmailsAt(selectedSlots, i) :
         \A j \in 1..(i - 1) : s \notin EmailsAt(selectedSlots, j)

SelectionOverlapWitness ==
  /\ pc = "done"
  /\ \E i, j \in 1..Len(selectedSlots) :
       /\ i < j
       /\ EmailsAt(selectedSlots, i) \cap EmailsAt(selectedSlots, j) # {}

\* C3 as stated, on indexes whose lists repeat no student: no set of slots
\* of the index with fewer slots than the returned selection covers every
\* student of the index.
CoveredBy(S) == UNION {EmailsAt(slots0, i) : i \in S}

SelectionIsMinimum ==
  (pc = "done" /\ NoRepeats(slots0)) =>
    \A S \in SUBSET (1..Len(slots0)) :
      CoveredBy(S) = StudentsOf(slots0) =>
        Cardinality(S) >= Len(selectedSlots)

\* C4 as stated: when getMinimumTimeSlots returns, the caller's index is as
\* it was before the call.
IndexUntouched == pc = "done" => allSlots = slots0

\* C4 amended: when getMinimumTimeSlots returns, the caller's index holds
\* exactly the slots that were not selected, in their order and with their
\* lists, and every selected entry is an entry of the index as it was.
IndexConsumed ==
  pc = "done" =>
    /\ allSlots =
         SelectSeq(slots0, LAMBDA e : e.key \notin Keys(selectedSlots))
    /\ \A i \in 1..Len(selectedSlots) : selectedSlots[i] \in Range(slots0)

IndexConsumedWitness ==
  /\ pc = "done"
  /\ allSlots # slots0
  /\ allSlots # <<>>

\* C5 as stated: when getIterativeTimeSlots ends, the excluded students it
\* reports are the students left in remainingStudents together with the
\* excludedStudents it was given.
ExcludedIsRemainingAndGiven ==
  pc = "done" =>
    ReportedExcluded = remainingStudents \cup Range(excludedStudents)

\* C6 as stated: every row of finalSelections holds at least minGroupSize
\* distinct students, none of them in a row selected before it.
RowsMeetGroupSize ==
  \A i \in 1..Len(finalSelections) :
    /\ Cardinality(RowStudents(i)) >= minGroupSize
    /\ \A j \in 1..(i - 1) : RowStudents(i) \cap RowStudents(j) = {}

\* C7 as stated: if minGroupSize >= 1 and every slot has fewer than
\* minGroupSize students, getIterativeTimeSlots selects nothing and reports
\* every student of the index as excluded.
ThresholdRejection ==
  ( /\ pc = "done"
    /\ minGroupSize >= 1
    /\ \A i \in 1..Len(slots0) :
         Cardinality(EmailsAt(slots0, i)) < minGroupSize ) =>
    /\ finalSelections = <<>>
    /\ StudentsOf(slots0) \subseteq ReportedExcluded

SelectsFirstOfLargestNewCoverage ==
  [][ (pc = "loop" /\ Len(selectedSlots') = Len(selectedSlots) + 1) =>
        \E i \in 1..Len(allSlots) :
          /\ selectedSlots'[Len(selectedSlots')] = allSlots[i]
          /\ \A j \in 1..Len(allSlots) :
               Len(FilterNotIn(allSlots[j].emails, studentsCovered))
                 <= Len(FilterNotIn(allSlots[i].emails, studentsCovered))
          /\ \A j \in 1..(i - 1) :
               Len(FilterNotIn(allSlots[j].emails, studentsCovered))
                 < Len(FilterNotIn(allSlots[i].emails, studentsCovered)) ]_vars

\* a tie was broken in the first round, and a later slot won the second
TieBrokenWitness ==
  /\ rounds = 2
  /\ selectedSlots[1].key = 1
  /\ selectedSlots[2].key = 3
  /\ Len(slots0[1].emails) = Len(slots0[2].emails)

\* C10 as stated: if some slot of the index holds every student of the
\* index, getMinimumTimeSlots returns exactly one slot.
OneSlotWhenOneHoldsAll ==
  ( /\ pc = "done"
    /\ \E i \in 1..Len(slots0) : EmailsAt(slots0, i) = StudentsOf(slots0) ) =>
    Len(selectedSlots) = 1

\* C13 as stated: a negative minGroupSize is rejected by
\* getIterativeTimeSlots at once: the sheet is not cleared, no header, row or
\* count is written, no round is run and no slot is selected.
NegativeGroupSizeRejected ==
  minGroupSize < 0 =>
    /\ sheet = BlankSheet
    /\ rounds = 0
    /\ finalSelections = <<>>

\* the distinct students of the rows getIterativeTimeSlots selected
SelectedStudents == UNION {RowStudents(i) : i \in 1..Len(finalSelections)}

\* C18 as stated: the 'Total Students' cell F2 holds the number of distinct
\* students of the selected rows plus the number of excluded students.
TotalIsSelectedPlusExcluded ==
  pc = "done" =>
    sheet.F2 = <<Cardinality(SelectedStudents) + Len(excludedStudents)>>

\* an index builder has returned
Built == pc \in {"call", "built"} /\ pipe # "none"

\* no slot label of obj is made of a day and an empty token
NoEmptyToken(obj) ==
  \A i \in 1..Len(obj) : \A d \in 1..Len(Days) : obj[i].key # SlotKey(d, <<>>)

\* no list of obj holds the empty email
NoEmptyEmail(obj) == \A i \in 1..Len(obj) : 0 \notin EmailsAt(obj, i)

\* C12 as stated: every slot of the index a builder returns has at least
\* thresh distinct students, and every slot at least thresh distinct students
\* are available at is in the index (stated on the sheets that give no empty
\* token and no empty email).
SlotsMeetThreshDistinct ==
  (Built /\ NoEmptyToken(availableSlots) /\ NoEmptyEmail(availableSlots)) =>
    /\ \A i \in 1..Len(allSlots) :
         Cardinality(EmailsAt(allSlots, i)) >= thresh
    /\ \A i \in 1..Len(availableSlots) :
         Cardinality(EmailsAt(availableSlots, i)) >= thresh =>
           availableSlots[i].key \in Keys(allSlots)

\* C15 as stated: in the index a builder returns no student is twice in the
\* list of a slot (stated on the sheets that give no empty token and no
\* empty email).
BuiltIndexHasNoRepeats ==
  (Built /\ NoEmptyToken(availableSlots) /\ NoEmptyEmail(availableSlots)) =>
    NoRepeats(allSlots)

\* C16 as stated: no slot label of the index a builder returns is made of a
\* day and an empty token (stated on the sheets that give no repeated entry
\* and no empty email).
NoLabelOfEmptyToken ==
  (Built /\ NoRepeats(availableSlots) /\ NoEmptyEmail(availableSlots)) =>
    NoEmptyToken(allSlots)

\* C17 as stated: no slot of the index built by findAvailableSlots, or by
\* getEmailsByTrack and findAvailableSlotsForEmails, holds the empty email
\* (stated on the sheets that give no repeated entry and no empty token).
NoEmptyParticipantKey ==
  ( /\ Built
    /\ pipe \in {"find", "byTrack"}
    /\ NoRepeats(availableSlots)
    /\ NoEmptyToken(availableSlots) ) =>
    NoEmptyEmail(allSlots)

\* the students of the rows writeSelectedSlotsToSheet wrote
WrittenSelected ==
  UNION {Range(outSheet.rows[i].students) : i \in 1..Len(outSheet.rows)}

\* the students of the cell E2 ('Exc Students') it wrote
WrittenExcluded == IF outSheet.E2 = <<>> THEN {} ELSE Range(outSheet.E2[1])

\* C11: when processAvailabilityBySheet or processAvailabilityByTrack has
\* written its sheet, the excluded students are the emails of the input list
\* that are in no selected slot: every input email is in a selected slot or
\* excluded, never both, and nobody else is selected or excluded.
ExcludedIsComplement ==
  pc = "written" =>
    /\ WrittenExcluded = Range(emailsArg) \ WrittenSelected
    /\ WrittenSelected \subseteq Range(emailsArg)
    /\ WrittenSelected = StudentsOf(selectedSlots)
    /\ WrittenExcluded = Range(excStudents)

\* a sheet was written with a selected student and an excluded one
ExcludedIsComplementWitness ==
  /\ pc = "written"
  /\ WrittenSelected # {}
  /\ WrittenExcluded # {}

\* the index the builder returned has no slot
ZeroSlots ==
  /\ pipe # "none"
  /\ IF pc = "call" THEN allSlots = <<>> ELSE slots0 = <<>>

\* C14: on an index without slots getMinimumTimeSlots runs no round, does
\* not throw and returns the empty map; getIterativeTimeSlots with
\* minGroupSize >= 0 writes no row; and the excluded list the builder
\* returned, and the one that is written, is the whole input list.
EmptyIndexIsDegenerate ==
  ZeroSlots =>
    /\ excStudents = emailsArg
    /\ pipe \in MinPipes =>
         /\ pc # "threw"
         /\ selectedSlots = <<>>
         /\ pc = "loop" => ~MinLoopGuard(studentsCovered, allStudents)
         /\ pc = "written" =>
              /\ outSheet.rows = <<>>
              /\ WrittenExcluded = Range(emailsArg)
    /\ (pipe = "main" /\ minGroupSize >= 0) =>
         /\ finalSelections = <<>>
         /\ pc = "done" =>
              /\ sheet.rows = <<>>
              /\ ReportedExcluded = Range(emailsArg)

\* a sheet was written for a list of two students after thresh had left no
\* slot of those the sheet gave
EmptyIndexWitness ==
  /\ ZeroSlots
  /\ pc = "written"
  /\ Len(emailsArg) = 2
  /\ availableSlots # <<>>

\* the place of the entry of a slot in selectedSlots
PlaceOf(slot) ==
  CHOOSE k \in 1..Len(selectedSlots) : selectedSlots[k].key = slot

\* C19: writeSelectedSlotsToSheet writes one row per entry of selectedSlots
\* and no other row, each with the list of its entry and the length of the
\* list as count; the counts never increase down the sheet, and rows of
\* equal count are in the order of their entries in selectedSlots.
RowsArePermutationSortedStable ==
  pc = "written" =>
    /\ Len(outSheet.rows) = Len(selectedSlots)
    /\ {outSheet.rows[i].slot : i \in 1..Len(outSheet.rows)}
         = Keys(selectedSlots)
    /\ \A i \in 1..Len(outSheet.rows) :
         /\ outSheet.rows[i].students
              = selectedSlots[PlaceOf(outSheet.rows[i].slot)].emails
         /\ outSheet.rows[i].count = Len(outSheet.rows[i].students)
    /\ \A i \in 1..Len(outSheet.rows) : \A j \in (i + 1)..Len(outSheet.rows) :
         /\ outSheet.rows[i].count >= outSheet.rows[j].count
         /\ outSheet.rows[i].count = outSheet.rows[j].count =>
              PlaceOf(outSheet.rows[i].slot) < PlaceOf(outSheet.rows[j].slot)

\* the third entry was written above the second, below the first it ties with
RowsReorderedWitness ==
  /\ pc = "written"
  /\ Len(outSheet.rows) = 3
  /\ PlaceOf(outSheet.rows[1].slot) = 1
  /\ PlaceOf(outSheet.rows[2].slot) = 3
  /\ PlaceOf(outSheet.rows[3].slot) = 2
  /\ outSheet.rows[1].count = outSheet.rows[2].count

\* what getMinimumTimeSlots returns when it runs alone on obj, from the state
\* (covered, selected) of its loop on
RECURSIVE MinAlone(_, _, _, _)
MinAlone(obj, all, covered, selected) ==
  IF ~(Cardinality(covered) < Cardinality(all)) \/ obj = <<>>
    THEN selected
    ELSE LET best == MinSortedSlots(obj, covered)[1]
         IN  MinAlone(DeleteKey(obj, best.key), all,
                      covered \cup Range(best.emails),
                      Append(selected, [key |-> best.key, emails |-> best.emails]))

\* the rows and the remaining students of getIterativeTimeSlots when it runs
\* alone on obj, from the state (remaining, rows) of its loop on
RECURSIVE IterAlone(_, _, _, _)
IterAlone(obj, min, remaining, rows) ==
  IF IterSelects(obj, remaining, min)
    THEN LET chosen == IterSortedSlots(obj, remaining)[1]
         IN  IterAlone(obj, min, remaining \ Range(chosen.emails),
                       Append(rows, IterRow(chosen)))
    ELSE [rows |-> rows, remaining |-> remaining]

FilteredList(i) == FilterIn(allSlots[i].emails, remainingStudents)

\* C23: every round of getIterativeTimeSlots that selects a slot selects the
\* first slot of the index, in insertion order, among those whose filtered
\* list is longest, and the filtered list it selects is not empty.
IterSelectsFirstOfLargest ==
  [][ rounds' = rounds + 1 =>
        \E i \in 1..Len(allSlots) :
          LET row == finalSelections'[Len(finalSelections')]
          IN  /\ Len(finalSelections') = Len(finalSelections) + 1
              /\ row.slot = allSlots[i].key
              /\ row.students = FilteredList(i)
              /\ row.students # <<>>
              /\ \A j \in 1..Len(allSlots) :
                   Len(FilteredList(j)) <= Len(FilteredList(i))
              /\ \A j \in 1..(i - 1) :
                   Len(FilteredList(j)) < Len(FilteredList(i)) ]_vars

\* two slots with lists of the same length: the first was selected in the
\* first round and the second in the second round
IterTieBrokenWitness ==
  /\ rounds = 2
  /\ Len(slots0) = 2
  /\ Len(slots0[1].emails) = Len(slots0[2].emails)
  /\ finalSelections[1].slot = slots0[1].key
  /\ finalSelections[2].slot = slots0[2].key

\* C24: when the loop of getIterativeTimeSlots has ended with minGroupSize
\* >= 1, every slot of the index has fewer than minGroupSize students still
\* in remainingStudents.
IterStopsOnlyWhenNoSlotFits ==
  (pc = "done" /\ minGroupSize >= 1) =>
    \A i \in 1..Len(slots0) :
      Cardinality(EmailsAt(slots0, i) \cap remainingStudents) < minGroupSize

\* the loop ended after a round, with students left that no slot can group
IterStoppedWitness ==
  /\ pc = "done"
  /\ minGroupSize >= 2
  /\ rounds >= 1
  /\ remainingStudents # {}

\* C25: after every round of getIterativeTimeSlots the student sets of the
\* selected rows are pairwise disjoint and disjoint from remainingStudents,
\* and with remainingStudents they make up the students of the index.
IterPartition ==
  pc \in {"loop", "done"} =>
    /\ \A i \in 1..Len(finalSelections) : \A j \in 1..(i - 1) :
         RowStudents(i) \cap RowStudents(j) = {}
    /\ SelectedStudents \cap remainingStudents = {}
    /\ SelectedStudents \cup remainingStudents = StudentsOf(slots0)

\* the first slot was selected, the second one holds only students of the
\* first and fewer than minGroupSize: nobody remains
IterConsumedWitness ==
  /\ pc = "done"
  /\ minGroupSize = 2
  /\ Len(slots0) = 2
  /\ Len(finalSelections) = 1
  /\ finalSelections[1].slot = slots0[1].key
  /\ EmailsAt(slots0, 2) \subseteq EmailsAt(slots0, 1)
  /\ Len(slots0[2].emails) < minGroupSize
  /\ remainingStudents = {}

\* C26: in getMinimumTimeSlots, with allStudents computed from the index
\* that is consumed, the call never throws, and whenever the loop guard holds
\* the index is not empty and its top-ranked slot has a student not yet
\* covered.
MinGuardMeansProgress ==
  /\ pc # "threw"
  /\ (pc = "loop" /\ MinLoopGuard(studentsCovered, allStudents)) =>
       /\ allSlots # <<>>
       /\ MinSortedSlots(allSlots, studentsCovered)[1].count >= 1
       /\ Range(MinSortedSlots(allSlots, studentsCovered)[1].emails)
            \ studentsCovered # {}

\* a round has run, a student is still uncovered and a slot is left
MinMidRunWitness ==
  /\ pc = "loop"
  /\ rounds >= 1
  /\ MinLoopGuard(studentsCovered, allStudents)
  /\ Len(allSlots) >= 2

\* the smaller of two numbers
Smaller(a, b) == IF a < b THEN a ELSE b

\* C27: getMinimumTimeSlots returns for every index, with every student of
\* the index covered, after at most as many rounds as there are slots and as
\* there are distinct students; each round deletes one slot, and on return
\* the keys left in the index and the keys selected are disjoint and are
\* together the keys of the index as it was given.
MinTerminatesConsuming ==
  /\ (pc = "loop" ~> pc = "done")
  /\ [](pc \in {"loop", "done"} =>
          /\ rounds <= Smaller(Len(slots0), Cardinality(StudentsOf(slots0)))
          /\ Len(allSlots) = Len(slots0) - rounds
          /\ Len(selectedSlots) = rounds)
  /\ [](pc = "done" =>
          /\ studentsCovered = allStudents
          /\ allStudents = StudentsOf(slots0)
          /\ Keys(allSlots) \cap Keys(selectedSlots) = {}
          /\ Keys(allSlots) \cup Keys(selectedSlots) = Keys(slots0))

\* the call returned after as many rounds as there are students, fewer than
\* there are slots
MinRoundsBoundWitness ==
  /\ pc = "done"
  /\ rounds = 1
  /\ Cardinality(StudentsOf(slots0)) = 1
  /\ Len(slots0) = 2
  /\ Len(allSlots) = 1

\* some slot of the index has a student still in remainingStudents
SomeSlotHasRemaining ==
  \E i \in 1..Len(allSlots) : EmailsAt(allSlots, i) \cap remainingStudents # {}

\* C28: getIterativeTimeSlots ends for every index and every minGroupSize;
\* every round takes at least one student out of remainingStudents; with
\* minGroupSize = 0 a round is run as long as some slot has a student left in
\* remainingStudents, and at the end every student of the index is selected.
IterTerminates ==
  /\ (pc = "loop" ~> pc = "done")
  /\ [][ rounds' = rounds + 1 =>
           /\ remainingStudents' \subseteq remainingStudents
           /\ remainingStudents' # remainingStudents ]_vars
  /\ []((pc = "loop" /\ minGroupSize = 0) =>
          (IterSelects(allSlots, remainingStudents, minGroupSize)
             <=> SomeSlotHasRemaining))
  /\ []((pc = "done" /\ minGroupSize = 0) =>
          /\ remainingStudents = {}
          /\ SelectedStudents = StudentsOf(slots0))

\* with minGroupSize = 0 the call ended after two rounds
IterZeroGroupSizeWitness ==
  /\ pc = "done"
  /\ minGroupSize = 0
  /\ rounds = 2
  /\ Cardinality(StudentsOf(slots0)) >= 3

\* C29: the counts of the rows getIterativeTimeSlots selects, and writes,
\* never increase from a row to the next.
IterCountsNonIncreasing ==
  /\ \A i \in 1..(Len(finalSelections) - 1) :
       finalSelections[i].count >= finalSelections[i + 1].count
  /\ \A i \in 1..(Len(sheet.rows) - 1) :
       sheet.rows[i].count >= sheet.rows[i + 1].count

\* two rows were written, the second with a smaller count, though the slot
\* of the second row had the longer list in the index
IterCountsWitness ==
  /\ pc = "done"
  /\ Len(sheet.rows) = 2
  /\ sheet.rows[1].count > sheet.rows[2].count
  /\ sheet.rows[1].slot = slots0[1].key
  /\ Len(slots0[1].emails) = Len(slots0[2].emails)

\* C30: getIterativeTimeSlots leaves the index it is given as it was, after
\* every round and at its end; a second call of getIterativeTimeSlots with
\* the same minGroupSize, or a call of getMinimumTimeSlots, on the index as
\* it is after the call gives what it gives on the index as it was.
IterLeavesIndex ==
  pc \in {"loop", "done"} =>
    /\ allSlots = slots0
    /\ pc = "done" =>
         /\ IterAlone(allSlots, minGroupSize, StudentsOf(allSlots), <<>>).rows
              = finalSelections
         /\ MinAlone(allSlots, StudentsOf(allSlots), {}, <<>>)
              = MinAlone(slots0, StudentsOf(slots0), {}, <<>>)

\* the call ended after two rounds on an index of two slots
IterLeavesIndexWitness ==
  /\ pc = "done"
  /\ rounds = 2
  /\ Len(allSlots) = 2
  /\ allSlots = slots0

\* C21: any two queries that logQuery has logged have different sheet names,
\* and so every logged query has a result sheet of its own.
SheetNamesUnique ==
  /\ \A i \in 1..Len(queryLog) : \A j \in 1..Len(queryLog) :
       i # j => queryLog[i].sheetName # queryLog[j].sheetName
  /\ Len(resultSheets) = Len(queryLog)

\* a student has one of the selected interests, whatever the letter case
SomeInterestAnyCase(student, interests) ==
  \E i \in 1..Len(interests) : \E j \in 1..Len(student.interests) :
    ToLowerCase(interests[i]) = ToLowerCase(student.interests[j])

\* C22: the rows the last call of processFilters wrote are the students of
\* studentData, in its order, who are available at the day and time asked
\* for and, when interests are selected, have one of them among their stored
\* interests, whatever its letter case.
WritesExactlyTheMatching ==
  lastQuery # <<>> =>
    lastQuery[1].rows =
      ResultRows(SelectSeq(studentData, LAMBDA s :
        /\ AvailableAt(s, lastQuery[1].day, lastQuery[1].time)
        /\ \/ lastQuery[1].interests = <<>>
           \/ SomeInterestAnyCase(s, lastQuery[1].interests)))
====
